---- MODULE Spec2Model ----
(***************************************************************************)
(* Model of the Decaf phase-2 parser (p2-parser.c): a recursive-descent    *)
(* parser over a token queue.  Token texts are sequences of characters so  *)
(* that atoi, strtol, quote stripping and identifier truncation are        *)
(* computed as the C library computes them.  Every rule threads a parser   *)
(* state s = [q, st, err, ub, u]:                                          *)
(*   q   the remaining token queue,                                        *)
(*   st  "ok", "err" (Error_throw_printf was called: the rule and all its  *)
(*       callers are abandoned) or "crash" (the process died),             *)
(*   err the failure raised,                                               *)
(*   ub  TRUE once undefined behaviour has been executed,                  *)
(*   u   what the build yields on undefined behaviour: u.crash (the read   *)
(*       through NULL traps), else u.tok (the fields such a read yields)   *)
(*       and u.node (the value of a function that ends without return).    *)
(***************************************************************************)
EXTENDS Integers, Sequences, FiniteSets, TLC

VARIABLES input, desc, pc, rule, arg, out

vars == <<input, desc, pc, rule, arg, out>>

(***************************** token texts *********************************)
t_int == <<"i","n","t">>
t_bool == <<"b","o","o","l">>
t_void == <<"v","o","i","d">>
t_def == <<"d","e","f">>
t_if == <<"i","f">>
t_else == <<"e","l","s","e">>
t_true == <<"t","r","u","e">>
t_false == <<"f","a","l","s","e">>
t_continue == <<"c","o","n","t","i","n","u","e">>
t_break == <<"b","r","e","a","k">>
t_return == <<"r","e","t","u","r","n">>
t_semi == <<";">>
t_comma == <<",">>
t_lparen == <<"(">>
t_rparen == <<")">>
t_lbrace == <<"{">>
t_rbrace == <<"}">>
t_assign == <<"=">>
t_not == <<"!">>
t_oror == <<"|","|">>
t_andand == <<"&","&">>
t_eqeq == <<"=","=">>
t_noteq == <<"!","=">>
t_lt == <<"<">>
t_le == <<"<","=">>
t_ge == <<">","=">>
t_gt == <<">">>
t_plus == <<"+">>
t_minus == <<"-">>
t_star == <<"*">>
t_slash == <<"/">>
t_percent == <<"%">>
t_type == <<"t","y","p","e">>
t_identifier == <<"i","d","e","n","t","i","f","i","e","r">>

MAX_ID_LEN == 256

Tok(type, text, line) == [type |-> type, text |-> text, line |-> line]

(************************** C library conversions **************************)
DecDigits == <<"0","1","2","3","4","5","6","7","8","9">>
HexLower == <<"0","1","2","3","4","5","6","7","8","9","a","b","c","d","e","f">>
HexUpper == <<"0","1","2","3","4","5","6","7","8","9","A","B","C","D","E","F">>

IsDec(c) == \E i \in 1..10 : DecDigits[i] = c
IsHex(c) == \E i \in 1..16 : HexLower[i] = c \/ HexUpper[i] = c
DecVal(c) == (CHOOSE i \in 1..10 : DecDigits[i] = c) - 1
HexVal(c) == (CHOOSE i \in 1..16 : HexLower[i] = c \/ HexUpper[i] = c) - 1

RECURSIVE DigitsValue(_, _, _)
\* the value of the longest prefix of digits of text, in the given base
DigitsValue(text, base, acc) ==
  IF text = <<>> THEN acc
  ELSE IF base = 10 /\ IsDec(Head(text))
       THEN DigitsValue(Tail(text), base, acc * 10 + DecVal(Head(text)))
  ELSE IF base = 16 /\ IsHex(Head(text))
       THEN DigitsValue(Tail(text), base, acc * 16 + HexVal(Head(text)))
  ELSE acc

atoi(text) ==
  IF text # <<>> /\ Head(text) = "-" THEN 0 - DigitsValue(Tail(text), 10, 0)
  ELSE IF text # <<>> /\ Head(text) = "+" THEN DigitsValue(Tail(text), 10, 0)
  ELSE DigitsValue(text, 10, 0)

\* strtol(text, NULL, 16): an optional 0x / 0X prefix, then hex digits
strtol16(text) ==
  IF Len(text) >= 3 /\ text[1] = "0" /\ text[2] \in {"x", "X"} /\ IsHex(text[3])
  THEN DigitsValue(SubSeq(text, 3, Len(text)), 16, 0)
  ELSE DigitsValue(text, 16, 0)

\* snprintf(buffer, n, "%s", text): at most n - 1 characters are kept
snprintf(n, text) == IF Len(text) > n - 1 THEN SubSeq(text, 1, n - 1) ELSE text

\* the quote-stripping copy of breakout_helper: strlen - 2 characters from text + 1
StripQuotes(text) == SubSeq(text, 2, Len(text) - 1)

(****************************** AST builder ********************************)
NULL == [kind |-> "NULL"]

VarDeclNode_new(name, type, is_array, array_length, line) ==
  [kind |-> "VarDecl", name |-> name, type |-> type, is_array |-> is_array,
   array_length |-> array_length, line |-> line]

FuncDeclNode_new(name, return_type, parameters, body, line) ==
  [kind |-> "FuncDecl", name |-> name, type |-> return_type,
   parameters |-> parameters, body |-> body, line |-> line]

ProgramNode_new(variables, functions) ==
  [kind |-> "Program", vars |-> variables, funcs |-> functions]

BlockNode_new(variables, statements, line) ==
  [kind |-> "Block", vars |-> variables, stmts |-> statements, line |-> line]

ContinueNode_new(line) == [kind |-> "Continue", line |-> line]
BreakNode_new(line) == [kind |-> "Break", line |-> line]
ReturnNode_new(value, line) == [kind |-> "Return", value |-> value, line |-> line]

LocationNode_new(name, index, line) ==
  [kind |-> "Location", name |-> name, index |-> index, line |-> line]

LiteralNode_new_int(value, line) ==
  [kind |-> "Literal", type |-> "INT", int |-> value, line |-> line]
LiteralNode_new_bool(value, line) ==
  [kind |-> "Literal", type |-> "BOOL", bool |-> value, line |-> line]
LiteralNode_new_string(value, line) ==
  [kind |-> "Literal", type |-> "STR", str |-> value, line |-> line]

AssignmentNode_new(location, value, line) ==
  [kind |-> "Assignment", location |-> location, value |-> value, line |-> line]

BinaryOpNode_new(operator, left, right, line) ==
  [kind |-> "BinaryOp", operator |-> operator, left |-> left, right |-> right,
   line |-> line]

UnaryOpNode_new(operator, child, line) ==
  [kind |-> "UnaryOp", operator |-> operator, child |-> child, line |-> line]

ConditionalNode_new(condition, if_block, else_block, line) ==
  [kind |-> "Conditional", condition |-> condition, if_block |-> if_block,
   else_block |-> else_block, line |-> line]

\* ParameterList_add_new(pl, name, type)
Parameter_new(name, type) == [name |-> name, type |-> type]

(**************************** failures and UB ******************************)
NoErr == [kind |-> "none", expected |-> <<>>, found |-> <<>>, line |-> 0]

Err(kind, expected, found, line) ==
  [kind |-> kind, expected |-> expected, found |-> found, line |-> line]

\* Error_throw_printf: the call never returns to the rule
Error_throw(s, e) == [s EXCEPT !.st = "err", !.err = e]

R(s, v) == [s |-> s, v |-> v]

TokenQueue_is_empty(s) == s.q = <<>>

\* executing undefined behaviour: the process dies, or goes on with a value
Undefined(s) ==
  IF s.u.crash THEN [s EXCEPT !.st = "crash", !.ub = TRUE]
  ELSE [s EXCEPT !.ub = TRUE]

\* TokenQueue_peek(input)->field: the front token, read through the pointer
\* without a check; the pointer is NULL when the queue is empty
PeekDeref(s) ==
  IF s.st # "ok" THEN R(s, s.u.tok)
  ELSE IF TokenQueue_is_empty(s) THEN R(Undefined(s), s.u.tok)
  ELSE R(s, Head(s.q))

\* TokenQueue_remove(input)->text: the front token removed and read through
\* the pointer without a check
RemoveDeref(s) ==
  IF s.st # "ok" THEN R(s, s.u.tok)
  ELSE IF TokenQueue_is_empty(s) THEN R(Undefined(s), s.u.tok)
  ELSE R([s EXCEPT !.q = Tail(s.q)], Head(s.q))

\* the end of a non-void function reached without a return statement
NoReturnValue(s) ==
  IF s.st # "ok" THEN R(s, NULL) ELSE R(Undefined(s), s.u.node)

(************************* stream cursor protocol **************************)
\* Then(r, Rest): the rest of a rule's body, run with the result r of the call
\* or statement before it
Then(r, Rest(_)) == CHOOSE x \in { Rest(y) : y \in {r} } : TRUE

get_next_token_line(s) ==
  IF s.st # "ok" THEN R(s, 0)
  ELSE IF TokenQueue_is_empty(s)
       THEN R(Error_throw(s, Err("UnexpectedEndOfInput", <<>>, <<>>, 0)), 0)
  ELSE R(s, Head(s.q).line)

\* variant: the end of input is reported without the expected text
match_and_discard_no_expected_text(s, type, text) ==
  IF s.st # "ok" THEN s
  ELSE IF TokenQueue_is_empty(s)
       THEN Error_throw(s, Err("UnexpectedEndOfInput", <<>>, <<>>, 0))
  ELSE LET token == Head(s.q)
           s1 == [s EXCEPT !.q = Tail(s.q)]
       IN IF token.type # type \/ token.text # text
          THEN Then(get_next_token_line(s1), LAMBDA ln :
                 IF ln.s.st # "ok" THEN ln.s
                 ELSE Error_throw(s1, Err("UnexpectedToken", text, token.text, ln.v)))
          ELSE s1

match_and_discard_next_token(s, type, text) ==
  IF s.st # "ok" THEN s
  ELSE IF TokenQueue_is_empty(s)
       THEN Error_throw(s, Err("UnexpectedEndOfInput", text, <<>>, 0))
  ELSE LET token == Head(s.q)
           s1 == [s EXCEPT !.q = Tail(s.q)]
       IN IF token.type # type \/ token.text # text
          THEN Then(get_next_token_line(s1), LAMBDA ln :
                 IF ln.s.st # "ok" THEN ln.s
                 ELSE Error_throw(s1, Err("UnexpectedToken", text, token.text, ln.v)))
          ELSE s1

discard_next_token(s) ==
  IF s.st # "ok" THEN s
  ELSE IF TokenQueue_is_empty(s)
       THEN Error_throw(s, Err("UnexpectedEndOfInput", <<>>, <<>>, 0))
  ELSE [s EXCEPT !.q = Tail(s.q)]

check_next_token_type(s, type) ==
  IF TokenQueue_is_empty(s) THEN FALSE ELSE Head(s.q).type = type

check_next_token(s, type, text) ==
  IF TokenQueue_is_empty(s) THEN FALSE
  ELSE Head(s.q).type = type /\ Head(s.q).text = text

\* the "Invalid type" failure of parse_type, raised after the token was removed
InvalidType(s1, token) ==
  Then(get_next_token_line(s1), LAMBDA ln :
    IF ln.s.st # "ok" THEN ln.s
    ELSE Error_throw(s1, Err("InvalidType", <<>>, token.text, ln.v)))

parse_type(s) ==
  IF s.st # "ok" THEN R(s, "VOID")
  ELSE IF TokenQueue_is_empty(s)
       THEN R(Error_throw(s, Err("UnexpectedEndOfInput", t_type, <<>>, 0)), "VOID")
  ELSE LET token == Head(s.q)
           s1 == [s EXCEPT !.q = Tail(s.q)]
       IN IF token.type # "KEY" THEN R(InvalidType(s1, token), "VOID")
          ELSE IF token.text = t_int THEN R(s1, "INT")
          ELSE IF token.text = t_bool THEN R(s1, "BOOL")
          ELSE IF token.text = t_void THEN R(s1, "VOID")
          ELSE R(InvalidType(s1, token), "VOID")

parse_id(s) ==
  IF s.st # "ok" THEN R(s, <<>>)
  ELSE IF TokenQueue_is_empty(s)
       THEN R(Error_throw(s, Err("UnexpectedEndOfInput", t_identifier, <<>>, 0)), <<>>)
  ELSE LET token == Head(s.q)
           s1 == [s EXCEPT !.q = Tail(s.q)]
       IN IF token.type # "ID"
          THEN Then(get_next_token_line(s1), LAMBDA ln :
                 R(IF ln.s.st # "ok" THEN ln.s
                   ELSE Error_throw(s1, Err("InvalidIdentifier", <<>>, token.text, ln.v)),
                   <<>>))
          ELSE R(s1, snprintf(MAX_ID_LEN, token.text))

(***************************** grammar rules *******************************)
NodeList_add(list, node) == Append(list, node)

\* the value a rule returns when it ends normally; none once it was abandoned
Return(s, v) == R(s, IF s.st = "ok" THEN v ELSE NULL)

\* variant: the line is read after the type has been parsed
parse_vardecl_line_after_type(s) ==
  Then(parse_type(s), LAMBDA tokenType :
  Then(PeekDeref(tokenType.s), LAMBDA l :
  Then(parse_id(l.s), LAMBDA name :
  Then(match_and_discard_next_token(name.s, "SYM", t_semi), LAMBDA m :
    Return(m, VarDeclNode_new(name.v, tokenType.v, FALSE, 1, l.v.line))))))

parse_vardecl(s) ==
  Then(PeekDeref(s), LAMBDA l :
  Then(parse_type(l.s), LAMBDA tokenType :
  Then(parse_id(tokenType.s), LAMBDA name :
  Then(match_and_discard_next_token(name.s, "SYM", t_semi), LAMBDA m :
    Return(m, VarDeclNode_new(name.v, tokenType.v, FALSE, 1, l.v.line))))))

\* `;` matched, then the node returned
SemicolonThen(s, node) ==
  Then(match_and_discard_next_token(s, "SYM", t_semi), LAMBDA m : Return(m, node))

\* the operand of `return`, after the keyword has been discarded
ReturnValue(s, line) ==
  IF check_next_token_type(s, "SYM")
  THEN SemicolonThen(s, ReturnNode_new(NULL, line))
  ELSE IF check_next_token_type(s, "ID")
  THEN Then(parse_id(s), LAMBDA name :
         SemicolonThen(name.s, ReturnNode_new(LocationNode_new(name.v, NULL, line), line)))
  ELSE IF check_next_token_type(s, "DECLIT")
  THEN Then(RemoveDeref(s), LAMBDA r :
         SemicolonThen(r.s, ReturnNode_new(LiteralNode_new_int(atoi(r.v.text), line), line)))
  ELSE IF check_next_token_type(s, "HEXLIT")
  THEN Then(RemoveDeref(s), LAMBDA r :
         SemicolonThen(r.s, ReturnNode_new(LiteralNode_new_int(strtol16(r.v.text), line), line)))
  ELSE IF check_next_token_type(s, "STRLIT")
  THEN Then(RemoveDeref(s), LAMBDA r :
         SemicolonThen(r.s, ReturnNode_new(
                              LiteralNode_new_string(StripQuotes(r.v.text), line), line)))
  ELSE R(Error_throw(s, Err("InvalidReturnExpression", <<>>, <<>>, 0)), NULL)

breakout_helper(s) ==
  Then(PeekDeref(s), LAMBDA keyword :
    IF keyword.s.st # "ok" THEN R(keyword.s, NULL)
    ELSE IF keyword.v.text = t_continue
    THEN SemicolonThen(discard_next_token(keyword.s), ContinueNode_new(keyword.v.line))
    ELSE IF keyword.v.text = t_break
    THEN SemicolonThen(discard_next_token(keyword.s), BreakNode_new(keyword.v.line))
    ELSE IF keyword.v.text = t_return
    THEN Then(discard_next_token(keyword.s), LAMBDA d :
           IF d.st # "ok" THEN R(d, NULL) ELSE ReturnValue(d, keyword.v.line))
    ELSE R(keyword.s, NULL))

\* the value of an assignment, chosen by the lookahead; the token stays queued
AssignmentValue(s, line) ==
  LET token_value == Head(s.q)
  IN IF check_next_token_type(s, "DECLIT")
     THEN R(s, LiteralNode_new_int(atoi(token_value.text), line))
     ELSE IF check_next_token_type(s, "HEXLIT")
     THEN R(s, LiteralNode_new_int(strtol16(token_value.text), line))
     ELSE IF check_next_token_type(s, "STRLIT")
     THEN R(s, LiteralNode_new_string(token_value.text, line))
     ELSE IF check_next_token(s, "KEY", t_true) \/ check_next_token(s, "KEY", t_false)
     THEN R(s, LiteralNode_new_bool(token_value.text # t_false, line))
     ELSE IF check_next_token_type(s, "ID")
     THEN R(s, LocationNode_new(token_value.text, NULL, line))
     ELSE R(Error_throw(s, Err("InvalidAssignmentValue", <<>>, <<>>, 0)), NULL)

parse_assignment(s) ==
  Then(PeekDeref(s), LAMBDA l :
  Then(parse_id(l.s), LAMBDA name :
  Then(match_and_discard_next_token(name.s, "SYM", t_assign), LAMBDA m :
  Then(IF m.st # "ok" THEN R(m, NULL) ELSE AssignmentValue(m, l.v.line), LAMBDA value :
  Then(discard_next_token(value.s), LAMBDA d :
  Then(match_and_discard_next_token(d, "SYM", t_semi), LAMBDA e :
    Return(e, AssignmentNode_new(LocationNode_new(name.v, NULL, l.v.line), value.v,
                                 l.v.line))))))))

type_helper(s) ==
  Then(PeekDeref(s), LAMBDA peek :
    IF peek.s.st # "ok" THEN R(peek.s, NULL)
    ELSE IF peek.v.type = "ID"
    THEN Then(parse_id(peek.s), LAMBDA name :
           Return(name.s, LocationNode_new(name.v, NULL, peek.v.line)))
    ELSE IF peek.v.type = "DECLIT"
    THEN Then(RemoveDeref(peek.s), LAMBDA r :
           Return(r.s, LiteralNode_new_int(atoi(r.v.text), peek.v.line)))
    ELSE IF check_next_token_type(peek.s, "HEXLIT")
    THEN Then(RemoveDeref(peek.s), LAMBDA r :
           Return(r.s, LiteralNode_new_int(strtol16(r.v.text), peek.v.line)))
    ELSE IF \/ check_next_token(peek.s, "KEY", t_true)
            \/ check_next_token(peek.s, "KEY", t_false)
    THEN R([peek.s EXCEPT !.q = Tail(peek.s.q)],
           LiteralNode_new_bool(peek.v.text # t_false, peek.v.line))
    ELSE NoReturnValue(peek.s))

OpOfText(value) ==
  IF value = t_oror THEN "OROP"
  ELSE IF value = t_andand THEN "ANDOP"
  ELSE IF value = t_eqeq THEN "EQOP"
  ELSE IF value = t_noteq THEN "NEQOP"
  ELSE IF value = t_lt THEN "LEOP"
  ELSE IF value = t_le THEN "LEOP"
  ELSE IF value = t_ge THEN "GEOP"
  ELSE IF value = t_gt THEN "GTOP"
  ELSE IF value = t_plus THEN "ADDOP"
  ELSE IF value = t_minus THEN "SUBOP"
  ELSE IF value = t_star THEN "MULOP"
  ELSE IF value = t_slash THEN "DIVOP"
  ELSE IF value = t_percent THEN "MODOP"
  ELSE "none"

op_type_helper(s) ==
  Then(PeekDeref(s), LAMBDA p :
    IF p.s.st # "ok" THEN R(p.s, "none")
    ELSE IF OpOfText(p.v.text) # "none" THEN R(p.s, OpOfText(p.v.text))
    ELSE R(Error_throw(p.s, Err("InvalidOperator", <<>>, p.v.text, 0)), "none"))

\* the "!" form: the token after "!" is peeked, parse_type removes and frees
\* it, and its text is then read through the stale pointer
NotForm(s, line) ==
  Then(parse_type([s EXCEPT !.q = Tail(s.q)]), LAMBDA t :
    IF t.s.st # "ok" THEN R(t.s, NULL)
    ELSE IF t.v = "BOOL"
    THEN Then(Undefined(t.s), LAMBDA stale :
           Return(stale, UnaryOpNode_new("NOTOP",
                    LiteralNode_new_bool(stale.u.tok.text # t_false, line), line)))
    ELSE NoReturnValue(t.s))

\* the general form: operand, operator, operand
BinaryForm(s, line) ==
  Then(type_helper(s), LAMBDA left :
  Then(op_type_helper(left.s), LAMBDA operator :
  Then(type_helper(operator.s), LAMBDA right :
    Return(right.s, BinaryOpNode_new(operator.v, left.v, right.v, line)))))

parse_expression(s) ==
  Then(PeekDeref(s), LAMBDA l :
    IF l.s.st # "ok" THEN R(l.s, NULL)
    ELSE IF check_next_token(l.s, "SYM", t_not) THEN NotForm(l.s, l.v.line)
    ELSE IF check_next_token(l.s, "KEY", t_true) \/ check_next_token(l.s, "KEY", t_false)
    THEN R([l.s EXCEPT !.q = Tail(l.s.q)],
           LiteralNode_new_bool(Head(l.s.q).text # t_false, l.v.line))
    ELSE BinaryForm(l.s, l.v.line))

RECURSIVE VarDeclLoop(_, _)
\* while (strcmp(next->text, "int") == 0 || strcmp(next->text, "bool") == 0)
VarDeclLoop(s, list) ==
  Then(PeekDeref(s), LAMBDA next :
    IF next.s.st # "ok" THEN R(next.s, list)
    ELSE IF next.v.text = t_int \/ next.v.text = t_bool
    THEN Then(parse_vardecl(next.s), LAMBDA vardecl :
           IF vardecl.s.st # "ok" THEN R(vardecl.s, list)
           ELSE VarDeclLoop(vardecl.s, NodeList_add(list, vardecl.v)))
    ELSE R(next.s, list))

RECURSIVE AssignmentLoop(_, _)
\* while (next->type == ID)
AssignmentLoop(s, list) ==
  Then(PeekDeref(s), LAMBDA next :
    IF next.s.st # "ok" THEN R(next.s, list)
    ELSE IF next.v.type = "ID"
    THEN Then(parse_assignment(next.s), LAMBDA assignment :
           IF assignment.s.st # "ok" THEN R(assignment.s, list)
           ELSE AssignmentLoop(assignment.s, NodeList_add(list, assignment.v)))
    ELSE R(next.s, list))

\* variant: the terminal statement is parsed but not added to the statements
parse_block_terminal_not_added(s) ==
  Then(PeekDeref(s), LAMBDA l :
  Then(match_and_discard_next_token(l.s, "SYM", t_lbrace), LAMBDA m :
  Then(VarDeclLoop(m, <<>>), LAMBDA vs :
  Then(AssignmentLoop(vs.s, <<>>), LAMBDA stmts :
  Then(breakout_helper(stmts.s), LAMBDA breakOut :
  Then(match_and_discard_next_token(breakOut.s, "SYM", t_rbrace), LAMBDA e :
    Return(e, BlockNode_new(vs.v, stmts.v, l.v.line))))))))

parse_block(s) ==
  Then(PeekDeref(s), LAMBDA l :
  Then(match_and_discard_next_token(l.s, "SYM", t_lbrace), LAMBDA m :
  Then(VarDeclLoop(m, <<>>), LAMBDA vs :
  Then(AssignmentLoop(vs.s, <<>>), LAMBDA stmts :
  Then(breakout_helper(stmts.s), LAMBDA breakOut :
  Then(match_and_discard_next_token(breakOut.s, "SYM", t_rbrace), LAMBDA e :
    Return(e, BlockNode_new(vs.v, NodeList_add(stmts.v, breakOut.v), l.v.line))))))))

parse_conditional(s) ==
  Then(PeekDeref(s), LAMBDA l :
  Then(match_and_discard_next_token(l.s, "KEY", t_if), LAMBDA a :
  Then(match_and_discard_next_token(a, "SYM", t_lparen), LAMBDA b :
  Then(parse_expression(b), LAMBDA expression :
  Then(match_and_discard_next_token(expression.s, "SYM", t_rparen), LAMBDA c :
  Then(parse_block(c), LAMBDA block :
    IF block.s.st # "ok" THEN R(block.s, NULL)
    ELSE IF check_next_token(block.s, "KEY", t_else)
    THEN Then(parse_block(block.s), LAMBDA else_block :
           Return(else_block.s,
                  ConditionalNode_new(expression.v, block.v, else_block.v, l.v.line)))
    ELSE R(block.s, ConditionalNode_new(expression.v, block.v, NULL, l.v.line))))))))

RECURSIVE ParamLoop(_, _)
\* while (!strcmp(peek->text, "int") || !strcmp(peek->text, "bool"))
ParamLoop(s, pl) ==
  Then(PeekDeref(s), LAMBDA peek :
    IF peek.s.st # "ok" THEN R(peek.s, pl)
    ELSE IF peek.v.text = t_int \/ peek.v.text = t_bool
    THEN Then(parse_type(peek.s), LAMBDA type :
         Then(parse_id(type.s), LAMBDA name :
           IF name.s.st # "ok" THEN R(name.s, pl)
           ELSE IF check_next_token(name.s, "SYM", t_comma)
           THEN ParamLoop(match_and_discard_next_token(name.s, "SYM", t_comma),
                          Append(pl, Parameter_new(name.v, type.v)))
           ELSE R(name.s, Append(pl, Parameter_new(name.v, type.v)))))
    ELSE R(peek.s, pl))

param_helper(s) == ParamLoop(s, <<>>)

parse_function_decl(s) ==
  Then(PeekDeref(s), LAMBDA l :
  Then(match_and_discard_next_token(l.s, "KEY", t_def), LAMBDA a :
  Then(parse_type(a), LAMBDA returnType :
  Then(parse_id(returnType.s), LAMBDA name :
  Then(match_and_discard_next_token(name.s, "SYM", t_lparen), LAMBDA b :
  Then(param_helper(b), LAMBDA parameters :
  Then(match_and_discard_next_token(parameters.s, "SYM", t_rparen), LAMBDA c :
  Then(parse_block(c), LAMBDA block :
    Return(block.s, FuncDeclNode_new(name.v, returnType.v, parameters.v, block.v,
                                     l.v.line))))))))))

RECURSIVE ProgramLoop(_, _, _)
\* while (!TokenQueue_is_empty(input))
ProgramLoop(s, variables, functions) ==
  IF s.st # "ok" THEN R(s, NULL)
  ELSE IF TokenQueue_is_empty(s) THEN R(s, ProgramNode_new(variables, functions))
  ELSE IF check_next_token(s, "KEY", t_def)
  THEN Then(parse_function_decl(s), LAMBDA func_decl :
         ProgramLoop(func_decl.s, variables, NodeList_add(functions, func_decl.v)))
  ELSE Then(parse_vardecl(s), LAMBDA vardecl :
         ProgramLoop(vardecl.s, NodeList_add(variables, vardecl.v), functions))

\* variant: a program must hold at least one declaration
parse_program_requires_declaration(s) ==
  IF TokenQueue_is_empty(s)
  THEN R(Error_throw(s, Err("UnexpectedEndOfInput", <<>>, <<>>, 0)), NULL)
  ELSE ProgramLoop(s, <<>>, <<>>)

parse_program(s) == ProgramLoop(s, <<>>, <<>>)

parse(s) == parse_program(s)

(************************ the result of applying a rule ********************)
UndefinedOutcomes ==
  { [crash |-> TRUE, tok |-> Tok("SYM", t_semi, 0), node |-> NULL] } \cup
  { [crash |-> FALSE, tok |-> k, node |-> n] :
      k \in { Tok("KEY", t_int, 0), Tok("ID", <<"g">>, 0),
              Tok("KEY", t_false, 0), Tok("DECLIT", <<"7">>, 0) },
      n \in { NULL, [kind |-> "Garbage"] } }

TokenQueue_new(tokens, u) ==
  [q |-> tokens, st |-> "ok", err |-> NoErr, ub |-> FALSE, u |-> u]

\* what the caller of a rule observes: how it ended, the failure, the value
\* returned and the tokens left in the queue
Outcome(r) ==
  [st |-> r.s.st, err |-> r.s.err, ub |-> r.s.ub, q |-> r.s.q,
   v |-> IF r.s.st = "ok" THEN r.v ELSE NULL]

NoOutcome == [st |-> "none", err |-> NoErr, ub |-> FALSE, q |-> <<>>, v |-> NULL]

(************************* token streams of the model **********************)
MaxTop == 3
MaxParams == 2
MaxDecls == 2
MaxAssigns == 2

\* tokens per source line in the layouts tried; the last puts a stream on one line
LineWidths == {1, 3, 100}

Lx(type, text) == [type |-> type, text |-> text]

RECURSIVE Flatten(_)
Flatten(seqs) == IF seqs = <<>> THEN <<>> ELSE Head(seqs) \o Flatten(Tail(seqs))

LineAt(i, w) == 1 + ((i - 1) \div w)

Layout(lex, w) == [i \in 1..Len(lex) |-> Tok(lex[i].type, lex[i].text, LineAt(i, w))]

TopLetters == <<"x", "y", "z", "w", "u", "v">>
FunLetters == <<"f", "g", "h", "k", "m", "n">>
LocalLetters == <<"x", "y", "z", "w", "u", "v">>
ParamLetters == <<"a", "b", "c", "d", "e", "r">>

TopName(i) == <<TopLetters[i]>>
FunName(i) == <<FunLetters[i]>>
LocalName(j) == <<LocalLetters[j]>>
ParamName(j) == <<ParamLetters[j]>>

TopTypeText(i) == IF i % 3 = 1 THEN t_int ELSE IF i % 3 = 2 THEN t_bool ELSE t_void
LocalTypeText(j) == IF j % 2 = 1 THEN t_int ELSE t_bool
DeclaredType(text) ==
  IF text = t_int THEN "INT" ELSE IF text = t_bool THEN "BOOL" ELSE "VOID"

t_five == <<"5">>
t_one == <<"1">>
t_hex == <<"0","x","1","F">>
t_str == <<"\"","h","i","\"">>

\* the value of the k-th kind of assignment
ValueLex(k) ==
  IF k % 5 = 0 THEN Lx("DECLIT", t_five)
  ELSE IF k % 5 = 1 THEN Lx("HEXLIT", t_hex)
  ELSE IF k % 5 = 2 THEN Lx("STRLIT", t_str)
  ELSE IF k % 5 = 3 THEN Lx("KEY", t_false)
  ELSE Lx("ID", LocalName(1))

Terminals ==
  {"continue", "break", "return", "return_id", "return_dec", "return_hex", "return_str"}

LexTerm(term) ==
  IF term = "continue" THEN <<Lx("KEY", t_continue), Lx("SYM", t_semi)>>
  ELSE IF term = "break" THEN <<Lx("KEY", t_break), Lx("SYM", t_semi)>>
  ELSE IF term = "return" THEN <<Lx("KEY", t_return), Lx("SYM", t_semi)>>
  ELSE IF term = "return_id"
       THEN <<Lx("KEY", t_return), Lx("ID", LocalName(1)), Lx("SYM", t_semi)>>
  ELSE IF term = "return_dec"
       THEN <<Lx("KEY", t_return), Lx("DECLIT", t_one), Lx("SYM", t_semi)>>
  ELSE IF term = "return_hex"
       THEN <<Lx("KEY", t_return), Lx("HEXLIT", t_hex), Lx("SYM", t_semi)>>
  ELSE IF term = "return_str"
       THEN <<Lx("KEY", t_return), Lx("STRLIT", t_str), Lx("SYM", t_semi)>>
  ELSE <<>>

LexParams(np, trail) ==
  Flatten([j \in 1..np |->
     <<Lx("KEY", LocalTypeText(j)), Lx("ID", ParamName(j))>> \o
     (IF j < np \/ trail THEN <<Lx("SYM", t_comma)>> ELSE <<>>)])

LexDecls(nd) ==
  Flatten([j \in 1..nd |->
     <<Lx("KEY", LocalTypeText(j)), Lx("ID", LocalName(j)), Lx("SYM", t_semi)>>])

LexAssigns(na, vk) ==
  Flatten([j \in 1..na |->
     <<Lx("ID", LocalName(j)), Lx("SYM", t_assign), ValueLex(vk + j), Lx("SYM", t_semi)>>])

LexBlock(sh) ==
  <<Lx("SYM", t_lbrace)>> \o LexDecls(sh.nd) \o LexAssigns(sh.na, sh.vk) \o
  LexTerm(sh.term) \o <<Lx("SYM", t_rbrace)>>

LexFun(i, sh) ==
  <<Lx("KEY", t_def), Lx("KEY", TopTypeText(i)), Lx("ID", FunName(i)),
    Lx("SYM", t_lparen)>> \o LexParams(sh.np, sh.trail) \o <<Lx("SYM", t_rparen)>> \o
  LexBlock(sh)

LexVar(i) == <<Lx("KEY", TopTypeText(i)), Lx("ID", TopName(i)), Lx("SYM", t_semi)>>

LexItem(kinds, sh, i) == IF kinds[i] = "v" THEN LexVar(i) ELSE LexFun(i, sh)

LexItems(kinds, sh) == Flatten([i \in 1..Len(kinds) |-> LexItem(kinds, sh, i)])

Shape(np, nd, na, vk, term, trail) ==
  [np |-> np, nd |-> nd, na |-> na, vk |-> vk, term |-> term, trail |-> trail]

WellFormedShapes ==
  { Shape(np, nd, na, vk, term, FALSE) :
      np \in 0..MaxParams, nd \in 0..MaxDecls, na \in 0..MaxAssigns,
      vk \in 0..4, term \in Terminals }

\* the function shape used where top-level constructs interleave
PlainShapes == { Shape(np, 1, 1, 4, "return_id", FALSE) : np \in 0..1 }

\* a trailing comma in the parameters, or a block without its terminal statement
MalformedShapes ==
  { Shape(np, nd, na, 4, term, trail) :
      np \in 0..MaxParams, nd \in 0..MaxDecls, na \in 0..MaxAssigns,
      term \in {"none", "return_dec", "break"}, trail \in BOOLEAN } \ WellFormedShapes

RECURSIVE KindSeqs(_)
KindSeqs(n) ==
  IF n = 0 THEN {<<>>}
  ELSE KindSeqs(n - 1) \cup
       { Append(k, x) : k \in { k \in KindSeqs(n - 1) : Len(k) = n - 1 }, x \in {"v", "f"} }

Desc(fam, kinds, sh, w, cut) ==
  [fam |-> fam, kinds |-> kinds, sh |-> sh, w |-> w, cut |-> cut]

\* sequences of well-formed top-level constructs, in every interleaving
Interleaved ==
  { Desc("wellformed", kinds, sh, w, Len(LexItems(kinds, sh))) :
      kinds \in KindSeqs(MaxTop), sh \in PlainShapes, w \in LineWidths }

\* one well-formed function declaration, in every shape
OneFunction ==
  { Desc("wellformed", <<"f">>, sh, w, Len(LexItems(<<"f">>, sh))) :
      sh \in WellFormedShapes, w \in LineWidths }

\* one function declaration with a malformed parameter list or block
Malformed ==
  { Desc("malformed", <<"f">>, sh, w, Len(LexItems(<<"f">>, sh))) :
      sh \in MalformedShapes, w \in LineWidths }

\* a stream that ends early: every proper prefix of a short program
Truncated ==
  UNION { { Desc("truncated", kinds, sh, w, cut) : cut \in 0..(Len(LexItems(kinds, sh)) - 1) } :
      kinds \in {<<"v">>, <<"f">>, <<"v", "f">>},
      sh \in { Shape(np, 1, 1, 0, "return_dec", FALSE) : np \in 0..MaxParams },
      w \in LineWidths }

ProgramDescs == Interleaved \cup OneFunction \cup Malformed \cup Truncated

Render(d) == Layout(SubSeq(LexItems(d.kinds, d.sh), 1, d.cut), d.w)

(***************************** specification *******************************)
Init ==
  /\ desc \in ProgramDescs
  /\ input = Render(desc)
  /\ pc = "ready"
  /\ rule = "none"
  /\ arg = <<>>
  /\ out = NoOutcome

\* the entry point applied to the token stream
Parse ==
  /\ pc = "ready"
  /\ \E u \in UndefinedOutcomes : out' = Outcome(parse(TokenQueue_new(input, u)))
  /\ rule' = "parse"
  /\ pc' = "done"
  /\ UNCHANGED <<input, desc, arg>>

Next == Parse

Spec == Init /\ [][Next]_vars

(********************* the trees the source text denotes *******************)
ItemStart(kinds, sh, i) == 1 + Len(LexItems(SubSeq(kinds, 1, i - 1), sh))

ExpectedVar(d, i) ==
  VarDeclNode_new(TopName(i), DeclaredType(TopTypeText(i)), FALSE, 1,
                  LineAt(ItemStart(d.kinds, d.sh, i), d.w))

\* position of the "{" of function i
BraceAt(d, i) == ItemStart(d.kinds, d.sh, i) + 4 + Len(LexParams(d.sh.np, d.sh.trail)) + 1

ExpectedParams(d) ==
  [j \in 1..d.sh.np |-> Parameter_new(ParamName(j), DeclaredType(LocalTypeText(j)))]

ExpectedLocals(d, i) ==
  [j \in 1..d.sh.nd |->
     VarDeclNode_new(LocalName(j), DeclaredType(LocalTypeText(j)), FALSE, 1,
                     LineAt(BraceAt(d, i) + 1 + 3 * (j - 1), d.w))]

\* kind, target and line of each assignment
ExpectedAssigns(d, i) ==
  [j \in 1..d.sh.na |->
     [kind |-> "Assignment", name |-> LocalName(j),
      line |-> LineAt(BraceAt(d, i) + 1 + 3 * d.sh.nd + 4 * (j - 1), d.w)]]

ExpectedTerminal(d, i) ==
  LET l == LineAt(BraceAt(d, i) + 1 + 3 * d.sh.nd + 4 * d.sh.na, d.w)
      term == d.sh.term
  IN IF term = "continue" THEN [kind |-> "Continue", line |-> l]
     ELSE IF term = "break" THEN [kind |-> "Break", line |-> l]
     ELSE IF term = "return" THEN [kind |-> "Return", value |-> NULL, line |-> l]
     ELSE IF term = "return_id"
     THEN [kind |-> "Return", line |-> l,
           value |-> [kind |-> "Location", name |-> LocalName(1), index |-> NULL, line |-> l]]
     ELSE IF term = "return_dec"
     THEN [kind |-> "Return", line |-> l,
           value |-> [kind |-> "Literal", type |-> "INT", int |-> 1, line |-> l]]
     ELSE IF term = "return_hex"
     THEN [kind |-> "Return", line |-> l,
           value |-> [kind |-> "Literal", type |-> "INT", int |-> 31, line |-> l]]
     ELSE [kind |-> "Return", line |-> l,
           value |-> [kind |-> "Literal", type |-> "STR", str |-> <<"h", "i">>, line |-> l]]

ExpectedFunHead(d, i) ==
  [kind |-> "FuncDecl", name |-> FunName(i), type |-> DeclaredType(TopTypeText(i)),
   parameters |-> ExpectedParams(d), line |-> LineAt(ItemStart(d.kinds, d.sh, i), d.w)]

FunHead(n) ==
  [kind |-> n.kind, name |-> n.name, type |-> n.type, parameters |-> n.parameters,
   line |-> n.line]

AssignHead(n) ==
  IF n.kind = "Assignment"
  THEN [kind |-> n.kind, name |-> n.location.name, line |-> n.line]
  ELSE [kind |-> n.kind, name |-> <<>>, line |-> 0]

IndicesOf(kinds, k) == { i \in 1..Len(kinds) : kinds[i] = k }

RECURSIVE Ascending(_)
\* the members of a set of numbers, in increasing order
Ascending(S) ==
  IF S = {} THEN <<>>
  ELSE LET m == CHOOSE x \in S : \A y \in S : x <= y
       IN <<m>> \o Ascending(S \ {m})

ExpectedVars(d) ==
  LET ix == Ascending(IndicesOf(d.kinds, "v"))
  IN [n \in 1..Len(ix) |-> ExpectedVar(d, ix[n])]

ExpectedFunHeads(d) ==
  LET ix == Ascending(IndicesOf(d.kinds, "f"))
  IN [n \in 1..Len(ix) |-> ExpectedFunHead(d, ix[n])]

Done == pc = "done"

(******************************* claims ************************************)
\* C1: a stream that is a sequence of well-formed top-level constructs is
\* parsed successfully and entirely, and the Program holds exactly the
\* variable declarations (name, type, line of the type token) and exactly the
\* function declarations, each list in source order, whatever the interleaving.
C1_ProgramListsInSourceOrder ==
  (Done /\ desc.fam = "wellformed") =>
     /\ out.st = "ok" /\ ~out.ub
     /\ out.q = <<>>
     /\ out.v.kind = "Program"
     /\ out.v.vars = ExpectedVars(desc)
     /\ Len(out.v.funcs) = Len(ExpectedFunHeads(desc))
     /\ \A n \in 1..Len(out.v.funcs) : FunHead(out.v.funcs[n]) = ExpectedFunHeads(desc)[n]

\* variable, function, variable has been parsed: `int x ;` on line 1 first
C1_Witness ==
  /\ Done /\ desc.fam = "wellformed" /\ desc.kinds = <<"v", "f", "v">>
  /\ out.st = "ok"
  /\ out.v.vars[1] = VarDeclNode_new(<<"x">>, "INT", FALSE, 1, 1)
  /\ Len(out.v.vars) = 2 /\ out.v.vars[2].name = <<"z">>
  /\ Len(out.v.funcs) = 1 /\ out.v.funcs[1].name = <<"g">>

\* C2: a function `def type id ( ) { D1..Dk A1..Am T }` yields a FuncDecl whose
\* block has exactly the k declarations in order as its variables and exactly
\* m + 1 statements: the m assignments in order, then the terminal statement.
C2_BlockListsInSourceOrder ==
  (Done /\ desc.fam = "wellformed" /\ desc.kinds = <<"f">>) =>
     /\ out.st = "ok"
     /\ Len(out.v.funcs) = 1
     /\ out.v.funcs[1].kind = "FuncDecl"
     /\ LET block == out.v.funcs[1].body
            m == desc.sh.na
        IN /\ block.kind = "Block"
           /\ block.line = LineAt(BraceAt(desc, 1), desc.w)
           /\ block.vars = ExpectedLocals(desc, 1)
           /\ Len(block.stmts) = m + 1
           /\ \A j \in 1..m : AssignHead(block.stmts[j]) = ExpectedAssigns(desc, 1)[j]
           /\ block.stmts[m + 1] = ExpectedTerminal(desc, 1)

\* `def int f ( ) { int x ; x = 5 ; return x ; }` has been parsed
C2_Witness ==
  /\ Done /\ desc.fam = "wellformed" /\ desc.kinds = <<"f">>
  /\ desc.sh = Shape(0, 1, 1, 4, "return_id", FALSE)
  /\ Len(out.v.funcs[1].body.vars) = 1
  /\ out.v.funcs[1].body.stmts[1].kind = "Assignment"
  /\ out.v.funcs[1].body.stmts[1].value.int = 5
  /\ out.v.funcs[1].body.stmts[2].kind = "Return"

IntX == <<Tok("KEY", t_int, 1), Tok("ID", <<"x">>, 1)>>

\* C3 (as amended): parsing `int x` (line 1, the `;` missing, nothing after it)
\* fails with UnexpectedEndOfInput whose expected text is `;`.
C3_MissingSemicolonIsEndOfInput ==
  (Done /\ input = IntX) =>
     /\ out.st = "err"
     /\ out.err.kind = "UnexpectedEndOfInput"
     /\ out.err.expected = t_semi

C3_Witness == Done /\ input = IntX /\ out.st = "err" /\ out.q = <<>>

\* C3 as stated: the failure is UnexpectedToken naming line 1 and expected `;`
C3_Original ==
  (Done /\ input = IntX) =>
     /\ out.st = "err"
     /\ out.err.kind = "UnexpectedToken"
     /\ out.err.line = 1
     /\ out.err.expected = t_semi

\* C4 (as amended): parse applied to an empty token stream returns a Program
\* whose variable list and function list are both empty.
C4_EmptyStreamIsEmptyProgram ==
  (Done /\ input = <<>>) =>
     /\ out.st = "ok" /\ ~out.ub
     /\ out.v = ProgramNode_new(<<>>, <<>>)

C4_Witness == Done /\ input = <<>> /\ out.v.kind = "Program"

\* C4 as stated: the empty stream fails with UnexpectedEndOfInput
C4_Original ==
  (Done /\ input = <<>>) => (out.st = "err" /\ out.err.kind = "UnexpectedEndOfInput")

IsTerminal(n) == n.kind \in {"Break", "Continue", "Return"}

BlockEndsWithOneTerminal(b) ==
  /\ b.kind = "Block"
  /\ Len(b.stmts) >= 1
  /\ IsTerminal(b.stmts[Len(b.stmts)])
  /\ \A j \in 1..(Len(b.stmts) - 1) : ~IsTerminal(b.stmts[j])
  /\ \A j \in 1..Len(b.stmts) : b.stmts[j] # NULL

\* C5: every block returned ends with exactly one Break, Continue or Return and
\* holds no absent statement; a block whose declarations and assignments are
\* not followed by continue, break or return is rejected with a parse failure.
C5_BlockEndsWithTerminal ==
  Done =>
     /\ (out.st = "ok" =>
           \A n \in 1..Len(out.v.funcs) : BlockEndsWithOneTerminal(out.v.funcs[n].body))
     /\ ((desc.fam = "malformed" /\ desc.sh.term = "none") => out.st = "err")

\* C8: a parameter list whose last `type identifier` pair is followed by `,`
\* and then `)` makes parse fail, the rest of the declaration being well formed.
C8_TrailingCommaRejected ==
  (/\ Done /\ desc.fam = "malformed"
   /\ desc.sh.trail /\ desc.sh.np >= 1 /\ desc.sh.term # "none") => out.st = "err"

\* C10: parse ends with a Program root or with one typed parse failure, and
\* never reads the front of an empty stream unchecked.
C10_ProgramOrTypedFailure ==
  Done =>
     /\ out.st \in {"ok", "err"}
     /\ ~out.ub
     /\ (out.st = "ok" => out.v.kind = "Program")
     /\ (out.st = "err" => out.err.kind # "none")

(******************* the rules applied to streams of their own *************)
Operands == { Lx("ID", <<"x">>), Lx("DECLIT", t_five), Lx("HEXLIT", t_hex) }

Operators ==
  { t_oror, t_andand, t_eqeq, t_noteq, t_lt, t_le, t_ge, t_gt, t_plus, t_minus,
    t_star, t_slash, t_percent }

Followers == { <<>>, <<Lx("SYM", t_rparen)>>, <<Lx("SYM", t_semi), Lx("ID", <<"y">>)>> }

ExprDesc(fam, lex, rest, w) == [fam |-> fam, lex |-> lex, rest |-> rest, w |-> w]

\* operand operator operand, then whatever follows
BinaryDescs ==
  { ExprDesc("binary", <<a, Lx("SYM", o), b>>, rest, w) :
      a \in Operands, o \in Operators, b \in Operands, rest \in Followers,
      w \in LineWidths }

\* the other forms: "!" and a keyword, one token alone, nothing at all
OtherExprDescs ==
  { ExprDesc("unary", <<Lx("SYM", t_not), Lx("KEY", k)>>, rest, w) :
      k \in {t_bool, t_int, t_void, t_true}, rest \in Followers, w \in LineWidths } \cup
  { ExprDesc("single", <<a>>, rest, w) :
      a \in Operands \cup { Lx("KEY", t_true), Lx("KEY", t_false), Lx("STRLIT", t_str),
                            Lx("SYM", t_lparen) },
      rest \in Followers, w \in LineWidths } \cup
  { ExprDesc("empty", <<>>, <<>>, w) : w \in LineWidths }

InitExpr ==
  /\ desc \in BinaryDescs \cup OtherExprDescs
  /\ input = Layout(desc.lex \o desc.rest, desc.w)
  /\ pc = "ready"
  /\ rule = "none"
  /\ arg = <<>>
  /\ out = NoOutcome

ParseExpression ==
  /\ pc = "ready"
  /\ \E u \in UndefinedOutcomes :
        out' = Outcome(parse_expression(TokenQueue_new(input, u)))
  /\ rule' = "parse_expression"
  /\ pc' = "done"
  /\ UNCHANGED <<input, desc, arg>>

SpecExpr == InitExpr /\ [][ParseExpression]_vars

BlockShapes ==
  { Shape(0, nd, na, 0, term, FALSE) :
      nd \in 0..1, na \in 0..1, term \in {"break", "return_dec"} }

Conditions ==
  { <<Lx("KEY", t_true)>>, <<Lx("KEY", t_false)>>,
    <<Lx("SYM", t_not), Lx("KEY", t_bool)>>,
    <<Lx("ID", <<"x">>), Lx("SYM", t_lt), Lx("ID", <<"y">>)>> }

CondDesc(e, b1, else, b2, rest, w) ==
  [fam |-> "conditional", e |-> e, b1 |-> b1, else |-> else, b2 |-> b2,
   rest |-> rest, w |-> w]

CondDescs ==
  { CondDesc(e, b1, else, b2, rest, w) :
      e \in Conditions, b1 \in BlockShapes, else \in BOOLEAN, b2 \in BlockShapes,
      rest \in { <<>>, <<Lx("KEY", t_return)>> }, w \in LineWidths }

LexCond(d) ==
  <<Lx("KEY", t_if), Lx("SYM", t_lparen)>> \o d.e \o <<Lx("SYM", t_rparen)>> \o
  LexBlock(d.b1) \o
  (IF d.else THEN <<Lx("KEY", t_else)>> \o LexBlock(d.b2) ELSE <<>>)

InitCond ==
  /\ desc \in CondDescs
  /\ input = Layout(LexCond(desc) \o desc.rest, desc.w)
  /\ pc = "ready"
  /\ rule = "none"
  /\ arg = <<>>
  /\ out = NoOutcome

ParseConditional ==
  /\ pc = "ready"
  /\ \E u \in UndefinedOutcomes :
        out' = Outcome(parse_conditional(TokenQueue_new(input, u)))
  /\ rule' = "parse_conditional"
  /\ pc' = "done"
  /\ UNCHANGED <<input, desc, arg>>

SpecCond == InitCond /\ [][ParseConditional]_vars

MaxCursorLen == 2

CursorLexemes ==
  { Lx("KEY", t_int), Lx("KEY", t_if), Lx("ID", <<"x">>), Lx("SYM", t_semi),
    Lx("SYM", t_lbrace), Lx("DECLIT", t_five) }

RECURSIVE LexSeqs(_)
LexSeqs(n) ==
  IF n = 0 THEN {<<>>}
  ELSE LexSeqs(n - 1) \cup
       { Append(k, x) : k \in { k \in LexSeqs(n - 1) : Len(k) = n - 1 }, x \in CursorLexemes }

Expectations == { Lx("SYM", t_semi), Lx("KEY", t_if), Lx("SYM", t_lbrace) }

InitCursor ==
  /\ desc \in { [fam |-> "cursor", lex |-> l, w |-> w] :
                  l \in LexSeqs(MaxCursorLen), w \in LineWidths }
  /\ input = Layout(desc.lex, desc.w)
  /\ pc = "ready"
  /\ rule = "none"
  /\ arg = <<>>
  /\ out = NoOutcome

MatchAndDiscard ==
  /\ pc = "ready"
  /\ \E e \in Expectations, u \in UndefinedOutcomes :
        /\ arg' = e
        /\ out' = Outcome(R(match_and_discard_next_token(TokenQueue_new(input, u),
                                                         e.type, e.text), NULL))
  /\ rule' = "match_and_discard_next_token"
  /\ pc' = "done"
  /\ UNCHANGED <<input, desc>>

ParseType ==
  /\ pc = "ready"
  /\ \E u \in UndefinedOutcomes : out' = Outcome(parse_type(TokenQueue_new(input, u)))
  /\ rule' = "parse_type"
  /\ pc' = "done"
  /\ UNCHANGED <<input, desc, arg>>

ParseId ==
  /\ pc = "ready"
  /\ \E u \in UndefinedOutcomes : out' = Outcome(parse_id(TokenQueue_new(input, u)))
  /\ rule' = "parse_id"
  /\ pc' = "done"
  /\ UNCHANGED <<input, desc, arg>>

NextCursor == MatchAndDiscard \/ ParseType \/ ParseId

SpecCursor == InitCursor /\ [][NextCursor]_vars

OperandNode(n) ==
  IF n.kind = "Location" THEN [kind |-> "Location", name |-> n.name, int |-> 0]
  ELSE IF n.kind = "Literal" /\ n.type = "INT"
       THEN [kind |-> "Literal", name |-> <<>>, int |-> n.int]
  ELSE [kind |-> n.kind, name |-> <<>>, int |-> 0]

ExpectedOperand(lx) ==
  IF lx.type = "ID" THEN [kind |-> "Location", name |-> lx.text, int |-> 0]
  ELSE IF lx.type = "DECLIT" THEN [kind |-> "Literal", name |-> <<>>, int |-> 5]
  ELSE [kind |-> "Literal", name |-> <<>>, int |-> 31]

\* the tokens of the stream from position n on
InputFrom(n) == SubSeq(input, n, Len(input))

\* C6: parseExpression on `operand operator operand` removes exactly those
\* three tokens and returns the BinaryOp of the first and the third token's
\* nodes, leaving the stream at the first token after the second operand.
C6_BinaryExpressionConsumesThree ==
  (Done /\ desc.fam = "binary") =>
     /\ out.st = "ok" /\ ~out.ub
     /\ out.v.kind = "BinaryOp"
     /\ OperandNode(out.v.left) = ExpectedOperand(desc.lex[1])
     /\ OperandNode(out.v.right) = ExpectedOperand(desc.lex[3])
     /\ out.q = InputFrom(4)

\* C7: parseConditional on `if ( e ) B1 else B2` returns Conditional(e, B1,
\* else = B2) with the stream just past B2; on `if ( e ) B1` without `else` it
\* returns Conditional(e, B1, no else-branch) with the stream just past B1.
\* (e ranges over the boolean literals, which parseExpression accepts.)
C7_ConditionalWithOptionalElse ==
  (Done /\ desc.e \in { <<Lx("KEY", t_true)>>, <<Lx("KEY", t_false)>> }) =>
     /\ out.st = "ok" /\ ~out.ub
     /\ out.v.kind = "Conditional"
     /\ out.v.condition.kind = "Literal"
     /\ out.v.if_block.kind = "Block"
     /\ Len(out.v.if_block.vars) = desc.b1.nd
     /\ Len(out.v.if_block.stmts) = desc.b1.na + 1
     /\ IF desc.else
        THEN /\ out.v.else_block.kind = "Block"
             /\ Len(out.v.else_block.vars) = desc.b2.nd
             /\ Len(out.v.else_block.stmts) = desc.b2.na + 1
        ELSE out.v.else_block = NULL
     /\ out.q = InputFrom(Len(LexCond(desc)) + 1)

Mismatches(token) ==
  IF rule = "match_and_discard_next_token"
  THEN token.type # arg.type \/ token.text # arg.text
  ELSE IF rule = "parse_type"
  THEN ~(token.type = "KEY" /\ token.text \in {t_int, t_bool, t_void})
  ELSE token.type # "ID"

MismatchFailure ==
  IF rule = "match_and_discard_next_token" THEN "UnexpectedToken"
  ELSE IF rule = "parse_type" THEN "InvalidType"
  ELSE "InvalidIdentifier"

\* C9: when expectAndDiscard, parseType or parseIdentifier removes a token
\* that does not match, the failure is the mismatch failure of that rule and
\* names the line of the mismatching token, whatever follows that token.
C9_MismatchNamesOwnLine ==
  (Done /\ input # <<>> /\ Mismatches(Head(input))) =>
     /\ out.st = "err"
     /\ out.err.kind = MismatchFailure
     /\ out.err.line = Head(input).line

====
